---- MODULE Spec2Model ----
(***************************************************************************)
(* The agent route (src/app/api/agent/route.ts, POST) on a string upstream *)
(* response: the preprocessor, the strict parser, the recovery parser, the *)
(* span extraction and the response, as a state machine over one request   *)
(* (Spec); the whole handler over a run of requests (RouteSpec); the chat  *)
(* page that calls it, src/app/page.tsx (PageSpec).                        *)
(*                                                                         *)
(* A string is a sequence of characters; a character is a one-character    *)
(* TLA+ string, except the six below, which are written by name.           *)
(***************************************************************************)
EXTENDS Integers, Sequences, FiniteSets, TLC

LF  == "LF"     \* line feed, U+000A
CR  == "CR"     \* carriage return, U+000D
TAB == "TAB"    \* character tabulation, U+0009
BS  == "BS"     \* the backslash
QT  == "QT"     \* the double quote
BT  == "BT"     \* the backtick

\* JavaScript's \s and String.prototype.trim, within the alphabet.
WhiteSpace == {" ", TAB, LF, CR}
\* JavaScript's LineTerminator (for ^ and $ under the m flag), within the alphabet.
LineTerminators == {LF, CR}
\* Characters JSON forbids unescaped inside a string literal (below U+0020).
ControlChars == {LF, CR, TAB, "BSP", "FF"}
Digits == {"0", "1", "2", "3", "4", "5", "6", "7", "8", "9"}
Letters == {"a", "b", "e", "f", "j", "l", "n", "o", "r", "s", "t", "u",
            "J", "S", "O", "N"}

Fence == <<BT, BT, BT>>
TagJson == <<"j", "s", "o", "n">>
TagJSON == <<"J", "S", "O", "N">>

----------------------------------------------------------------------------
(* Helpers on strings *)

\* s has the word w at index i.
HasAt(s, i, w) ==
    /\ i >= 1
    /\ i + Len(w) - 1 <= Len(s)
    /\ \A k \in 1..Len(w) : s[i + k - 1] = w[k]

RECURSIVE SkipWs(_, _)
\* The first index >= i of s that holds no white space (Len(s)+1 when none).
SkipWs(s, i) ==
    IF i <= Len(s) /\ s[i] \in WhiteSpace THEN SkipWs(s, i + 1) ELSE i

RECURSIVE Concat(_)
\* The concatenation of a sequence of strings.
Concat(ss) == IF ss = <<>> THEN <<>> ELSE Head(ss) \o Concat(Tail(ss))

----------------------------------------------------------------------------
(* STRATEGY 1: the preprocessor, route.ts lines 148-160 *)

RECURSIVE ReplaceEscapeFrom(_, _, _, _)
\* s.replace(/\\c/g, r) from index i: every backslash followed by the letter
\* c becomes the character r; the scan resumes after the pair.
ReplaceEscapeFrom(s, i, c, r) ==
    IF i > Len(s) THEN <<>>
    ELSE IF s[i] = BS /\ i < Len(s) /\ s[i + 1] = c
         THEN <<r>> \o ReplaceEscapeFrom(s, i + 2, c, r)
         ELSE <<s[i]>> \o ReplaceEscapeFrom(s, i + 1, c, r)

ReplaceEscape(s, c, r) == ReplaceEscapeFrom(s, 1, c, r)

\* The escape step with the third replacement left out.
ReplaceEscapesNoTab(s) ==
    ReplaceEscape(ReplaceEscape(s, "n", LF), "r", CR)

\* Lines 151-153: the three replacements, in the code's order.
ReplaceEscapes(s) ==
    ReplaceEscape(ReplaceEscape(ReplaceEscape(s, "n", LF), "r", CR), "t", TAB)

\* ^ under the m flag: the start of the input or just after a line terminator.
AtLineStart(s, i) == i = 1 \/ s[i - 1] \in LineTerminators

\* $ under the m flag at index i (before s[i]): the end of the input or just
\* before a line terminator.
AtLineEnd(s, i) == i > Len(s) \/ s[i] \in LineTerminators

\* The tag pattern with its second alternative left out: (?:json)?.
AfterTagLowerCase(s, i) == IF HasAt(s, i, TagJson) THEN i + 4 ELSE i

\* The index after the optional tag (?:json|JSON)? starting at i.
AfterTag(s, i) ==
    IF HasAt(s, i, TagJson) \/ HasAt(s, i, TagJSON) THEN i + 4 ELSE i

\* The opening pattern without its ^ anchor.
OpenFenceEndAnywhere(s, i) ==
    IF HasAt(s, i, Fence) THEN SkipWs(s, AfterTag(s, i + 3)) ELSE 0

\* /^```(?:json|JSON)?\s*\n?/ tried at index i: the index after the match, or
\* 0 when it does not match there. The greedy \s* takes every white space
\* character, line feeds included, so \n? is left nothing to take.
OpenFenceEnd(s, i) ==
    IF AtLineStart(s, i) /\ HasAt(s, i, Fence)
    THEN SkipWs(s, AfterTag(s, i + 3))
    ELSE 0

RECURSIVE StripOpenFrom(_, _)
\* The g flag, with the match tried at i ending before e (0: no match): every
\* match is removed, each search resuming where the last match ended.
StripOpenAt(s, i, e) ==
    IF e # 0 THEN StripOpenFrom(s, e) ELSE <<s[i]>> \o StripOpenFrom(s, i + 1)

StripOpenFrom(s, i) ==
    IF i > Len(s) THEN <<>> ELSE StripOpenAt(s, i, OpenFenceEnd(s, i))

\* Line 156: cleaned.replace(/^```(?:json|JSON)?\s*\n?/gm, '').
StripOpenFence(s) == StripOpenFrom(s, 1)

\* The largest member of a set of indexes, or 0.
MaxOf(S) == IF S = {} THEN 0 ELSE CHOOSE e \in S : \A f \in S : f <= e

\* The largest e in lo..hi at which $ holds, or 0: how far the greedy \s*
\* backtracks when the white space is followed by another character.
LastLineEnd(s, lo, hi) == MaxOf({e \in lo..hi : AtLineEnd(s, e)})

\* ```\s*$ tried at index k: the index after the match, or 0.
CloseFenceAt(s, k) ==
    IF HasAt(s, k, Fence) THEN LastLineEnd(s, k + 3, SkipWs(s, k + 3)) ELSE 0

\* The closing pattern with its line feed made mandatory: /\n```\s*$/.
CloseFenceEndAfterLineFeed(s, i) ==
    IF s[i] = LF /\ HasAt(s, i + 1, Fence) THEN CloseFenceAt(s, i + 1) ELSE 0

\* /\n?```\s*$/ tried at index i: the index after the match, or 0.
CloseFenceEnd(s, i) ==
    CloseFenceAt(s, IF s[i] = LF /\ HasAt(s, i + 1, Fence) THEN i + 1 ELSE i)

RECURSIVE StripCloseFrom(_, _)
StripCloseAt(s, i, e) ==
    IF e # 0 THEN StripCloseFrom(s, e) ELSE <<s[i]>> \o StripCloseFrom(s, i + 1)

StripCloseFrom(s, i) ==
    IF i > Len(s) THEN <<>> ELSE StripCloseAt(s, i, CloseFenceEnd(s, i))

\* Line 157: cleaned.replace(/\n?```\s*$/gm, '').
StripCloseFence(s) == StripCloseFrom(s, 1)

RECURSIVE TrimEnd(_)
TrimEnd(s) ==
    IF s # <<>> /\ s[Len(s)] \in WhiteSpace
    THEN TrimEnd(SubSeq(s, 1, Len(s) - 1))
    ELSE s

\* Line 160: cleaned.trim().
Trim(s) == TrimEnd(SubSeq(s, SkipWs(s, 1), Len(s)))

\* Lines 155-157: the fence step.
StripFences(s) == StripCloseFence(StripOpenFence(s))

\* Lines 148-160: the cleaned string.
Preprocess(s) == Trim(StripFences(ReplaceEscapes(s)))

----------------------------------------------------------------------------
(* JSON values *)
(* A value is written as a sequence of tokens: "{" k ":" v "," ... "}" for *)
(* an object (keys in insertion order), "[" v "," ... "]" for an array,    *)
(* "<str" c ... "str>" for a string of characters c, "<num" d ... "num>"   *)
(* for a number of digits d, and "true", "false", "null". Characters occur *)
(* only between "<str" and "str>", so the writing is unambiguous and two   *)
(* values are equal exactly when their token sequences are.                *)

StrVal(chars) == <<"<str">> \o chars \o <<"str>">>
NumVal(digits) == <<"<num">> \o digits \o <<"num>">>

\* `v && typeof v === 'object'`: a non-null object or an array.
IsObject(v) == v # <<>> /\ v[1] \in {"{", "["}

\* typeof v === 'string'.
IsString(v) == v # <<>> /\ v[1] = "<str"

\* The outcome of a parse that throws, or of a parser that gives up.
NoParse == [ok |-> FALSE, val |-> <<>>, next |-> 0]

\* The outcome of a parse that read the value v and stopped before index n.
Parsed(v, n) == [ok |-> TRUE, val |-> v, next |-> n]

----------------------------------------------------------------------------
(* STRATEGY 2: JSON.parse, ECMA-404 within the alphabet *)

\* The character a simple escape \e stands for.
SimpleEscape(e) ==
    CASE e = QT -> QT
      [] e = BS -> BS
      [] e = "/" -> "/"
      [] e = "b" -> "BSP"
      [] e = "f" -> "FF"
      [] e = "n" -> LF
      [] e = "r" -> CR
      [] e = "t" -> TAB
      [] OTHER -> "none"

HexDigits == Digits \cup {"a", "b", "c", "d", "e", "f", "A", "B", "C", "D", "E", "F"}

\* The character \uXXXX stands for: white space is named, any other code
\* unit is kept as written.
UnicodeEscape(h) ==
    CASE h = <<"0", "0", "0", "a">> \/ h = <<"0", "0", "0", "A">> -> LF
      [] h = <<"0", "0", "0", "d">> \/ h = <<"0", "0", "0", "D">> -> CR
      [] h = <<"0", "0", "0", "9">> -> TAB
      [] h = <<"0", "0", "2", "0">> -> " "
      [] OTHER -> "u" \o h[1] \o h[2] \o h[3] \o h[4]

RECURSIVE ParseChars(_, _, _)
\* The escape whose backslash is at index i of a string literal.
ParseEscape(s, i, acc) ==
    IF i + 1 > Len(s) THEN NoParse
    ELSE IF s[i + 1] = "u"
         THEN IF i + 5 <= Len(s) /\ \A k \in 2..5 : s[i + k] \in HexDigits
              THEN ParseChars(s, i + 6,
                              Append(acc, UnicodeEscape(SubSeq(s, i + 2, i + 5))))
              ELSE NoParse
    ELSE IF SimpleEscape(s[i + 1]) # "none"
         THEN ParseChars(s, i + 2, Append(acc, SimpleEscape(s[i + 1])))
    ELSE NoParse

\* The characters of a string literal whose opening quote precedes index i.
ParseChars(s, i, acc) ==
    IF i > Len(s) THEN NoParse
    ELSE IF s[i] = QT THEN Parsed(StrVal(acc), i + 1)
    ELSE IF s[i] \in ControlChars THEN NoParse
    ELSE IF s[i] = BS THEN ParseEscape(s, i, acc)
    ELSE ParseChars(s, i + 1, Append(acc, s[i]))

RECURSIVE SkipDigits(_, _)
SkipDigits(s, i) ==
    IF i <= Len(s) /\ s[i] \in Digits THEN SkipDigits(s, i + 1) ELSE i

\* The number that starts at i and stops before e.
NumberTo(s, i, e) == Parsed(NumVal(SubSeq(s, i, e - 1)), e)

\* A number at index i: 0 or a digit run without a leading zero. The
\* alphabet holds no sign, fraction or exponent character.
ParseNumber(s, i) == NumberTo(s, i, IF s[i] = "0" THEN i + 1 ELSE SkipDigits(s, i))

\* The members of an object, as records [k, v], with key k set to v: a key
\* met again keeps its place and takes the later value.
PutMember(ms, k, v) ==
    IF \E j \in 1..Len(ms) : ms[j].k = k
    THEN [j \in 1..Len(ms) |-> IF ms[j].k = k THEN [k |-> k, v |-> v] ELSE ms[j]]
    ELSE Append(ms, [k |-> k, v |-> v])

RECURSIVE WriteMembers(_)
WriteMembers(ms) ==
    IF ms = <<>> THEN <<>>
    ELSE Head(ms).k \o <<":">> \o Head(ms).v
         \o (IF Len(ms) > 1 THEN <<",">> ELSE <<>>) \o WriteMembers(Tail(ms))

RECURSIVE ParseValue(_, _)
RECURSIVE ParseElements(_, _, _)
RECURSIVE ParseMembers(_, _, _)

\* After an element: ] ends the array, a comma asks for another element.
ElementNext(s, j, acc) ==
    IF j > Len(s) THEN NoParse
    ELSE IF s[j] = "]" THEN Parsed(Append(acc, "]"), j + 1)
    ELSE IF s[j] = "," THEN ParseElements(s, SkipWs(s, j + 1), Append(acc, ","))
    ELSE NoParse

ElementValue(s, v, acc) ==
    IF v.ok THEN ElementNext(s, SkipWs(s, v.next), acc \o v.val) ELSE NoParse

\* The elements of an array from index i (white space skipped), after acc.
ParseElements(s, i, acc) == ElementValue(s, ParseValue(s, i), acc)

\* After a member: } ends the object, a comma asks for another member.
MemberNext(s, j, ms) ==
    IF j > Len(s) THEN NoParse
    ELSE IF s[j] = "}" THEN Parsed(<<"{">> \o WriteMembers(ms) \o <<"}">>, j + 1)
    ELSE IF s[j] = "," THEN ParseMembers(s, SkipWs(s, j + 1), ms)
    ELSE NoParse

MemberValue(s, key, v, ms) ==
    IF v.ok THEN MemberNext(s, SkipWs(s, v.next), PutMember(ms, key, v.val))
    ELSE NoParse

MemberColon(s, key, c, ms) ==
    IF c > Len(s) \/ s[c] # ":" THEN NoParse
    ELSE MemberValue(s, key, ParseValue(s, SkipWs(s, c + 1)), ms)

MemberKey(s, k, ms) ==
    IF k.ok THEN MemberColon(s, k.val, SkipWs(s, k.next), ms) ELSE NoParse

\* The members of an object from index i (white space skipped), after ms.
ParseMembers(s, i, ms) ==
    IF i > Len(s) \/ s[i] # QT THEN NoParse
    ELSE MemberKey(s, ParseChars(s, i + 1, <<>>), ms)

\* The object whose { precedes index j (white space skipped).
ParseObject(s, j) ==
    IF j <= Len(s) /\ s[j] = "}" THEN Parsed(<<"{", "}">>, j + 1)
    ELSE ParseMembers(s, j, <<>>)

\* The array whose [ precedes index j (white space skipped).
ParseArray(s, j) ==
    IF j <= Len(s) /\ s[j] = "]" THEN Parsed(<<"[", "]">>, j + 1)
    ELSE ParseElements(s, j, <<"[">>)

\* The value that starts at index i.
ParseValue(s, i) ==
    IF i > Len(s) THEN NoParse
    ELSE IF s[i] = "{" THEN ParseObject(s, SkipWs(s, i + 1))
    ELSE IF s[i] = "[" THEN ParseArray(s, SkipWs(s, i + 1))
    ELSE IF s[i] = QT THEN ParseChars(s, i + 1, <<>>)
    ELSE IF s[i] \in Digits THEN ParseNumber(s, i)
    ELSE IF HasAt(s, i, <<"t", "r", "u", "e">>) THEN Parsed(<<"true">>, i + 4)
    ELSE IF HasAt(s, i, <<"f", "a", "l", "s", "e">>) THEN Parsed(<<"false">>, i + 5)
    ELSE IF HasAt(s, i, <<"n", "u", "l", "l">>) THEN Parsed(<<"null">>, i + 4)
    ELSE NoParse

\* The value v, when only white space follows it.
WholeText(s, v) ==
    IF v.ok /\ SkipWs(s, v.next) > Len(s) THEN Parsed(v.val, 0) ELSE NoParse

\* JSON.parse(s): one value between optional white space, or a throw (~ok).
JSONparse(s) == WholeText(s, ParseValue(s, SkipWs(s, 1)))

----------------------------------------------------------------------------
(* STRATEGIES 3 and 5: parseLLMJson, '@/utils/jsonParser'                  *)
(* The recovery parser, after sections 3 and 4.2 of the specification: the *)
(* strict parse, the fixed parse, the extraction of balanced spans. Of the  *)
(* repairs, those that act on characters of the alphabet are written out   *)
(* (trailing commas, bare keys); the byte-order mark, the comment, the     *)
(* single quote and the Python literals need characters it does not hold.  *)

\* A comma at index i outside a string literal that only white space
\* separates from a closing } or ].
TrailingComma(s, i) ==
    /\ s[i] = ","
    /\ SkipWs(s, i + 1) <= Len(s)
    /\ s[SkipWs(s, i + 1)] \in {"}", "]"}

RECURSIVE DropTrailingCommas(_, _, _)
\* Trailing commas are dropped. inStr: index i is inside a string literal.
DropTrailingCommas(s, i, inStr) ==
    IF i > Len(s) THEN <<>>
    ELSE IF inStr /\ s[i] = BS /\ i < Len(s)
         THEN <<s[i], s[i + 1]>> \o DropTrailingCommas(s, i + 2, inStr)
    ELSE IF s[i] = QT
         THEN <<s[i]>> \o DropTrailingCommas(s, i + 1, ~inStr)
    ELSE IF ~inStr /\ TrailingComma(s, i)
         THEN DropTrailingCommas(s, i + 1, inStr)
    ELSE <<s[i]>> \o DropTrailingCommas(s, i + 1, inStr)

RECURSIVE SkipLetters(_, _)
SkipLetters(s, i) ==
    IF i <= Len(s) /\ s[i] \in Letters \cup Digits THEN SkipLetters(s, i + 1) ELSE i

\* The identifier from i stops before e, and a colon follows it (after
\* white space): e, or 0.
BareKeyTo(s, e, c) == IF c <= Len(s) /\ s[c] = ":" THEN e ELSE 0

BareKeyFrom(s, e) == BareKeyTo(s, e, SkipWs(s, e))

\* An identifier starts at i, right after { or , (and white space), and a
\* colon follows it: the index after the identifier, or 0.
BareKeyEnd(s, i, prev) ==
    IF s[i] \in Letters /\ prev \in {"{", ","}
    THEN BareKeyFrom(s, SkipLetters(s, i))
    ELSE 0

RECURSIVE QuoteBareKeys(_, _, _, _)
\* Outside a string literal at index i, with the bare key there ending
\* before e (0: none).
QuoteBareKeyAt(s, i, prev, e) ==
    IF e # 0
    THEN <<QT>> \o SubSeq(s, i, e - 1) \o <<QT>> \o QuoteBareKeys(s, e, FALSE, QT)
    ELSE <<s[i]>> \o QuoteBareKeys(s, i + 1, FALSE,
                                   IF s[i] \in WhiteSpace THEN prev ELSE s[i])

\* key: becomes "key":. prev: the last character before i that is no white
\* space ("" at the start).
QuoteBareKeys(s, i, inStr, prev) ==
    IF i > Len(s) THEN <<>>
    ELSE IF inStr /\ s[i] = BS /\ i < Len(s)
         THEN <<s[i], s[i + 1]>> \o QuoteBareKeys(s, i + 2, inStr, s[i + 1])
    ELSE IF s[i] = QT
         THEN <<s[i]>> \o QuoteBareKeys(s, i + 1, ~inStr, s[i])
    ELSE IF inStr
         THEN <<s[i]>> \o QuoteBareKeys(s, i + 1, inStr, s[i])
    ELSE QuoteBareKeyAt(s, i, prev, BareKeyEnd(s, i, prev))

\* 4.2 b: the textual repairs, in sequence.
FixText(s) == QuoteBareKeys(DropTrailingCommas(s, 1, FALSE), 1, FALSE, "")

\* 4.2 b after 4.2 a gave strict: the strict parse of the repaired text.
OrFixed(s, strict, attemptFix) ==
    IF strict.ok \/ ~attemptFix THEN strict ELSE JSONparse(FixText(s))

\* 4.2 a and b on one text.
ParseOrFix(s, attemptFix) == OrFixed(s, JSONparse(s), attemptFix)

RECURSIVE BalancedEnd(_, _, _, _)
\* 4.2 c: the index of the delimiter that closes the span opened before i,
\* by depth counting that skips string literals and escaped characters; 0
\* when the text ends first.
BalancedEnd(s, i, depth, inStr) ==
    IF i > Len(s) THEN 0
    ELSE IF inStr
         THEN IF s[i] = BS THEN BalancedEnd(s, i + 2, depth, inStr)
              ELSE BalancedEnd(s, i + 1, depth, s[i] # QT)
    ELSE IF s[i] = QT THEN BalancedEnd(s, i + 1, depth, TRUE)
    ELSE IF s[i] \in {"{", "["} THEN BalancedEnd(s, i + 1, depth + 1, inStr)
    ELSE IF s[i] \in {"}", "]"}
         THEN IF depth = 1 THEN i ELSE BalancedEnd(s, i + 1, depth - 1, inStr)
    ELSE BalancedEnd(s, i + 1, depth, inStr)

RECURSIVE FirstOpener(_, _)
\* The first index >= i that holds { or [ (Len(s)+1 when none).
FirstOpener(s, i) ==
    IF i <= Len(s) /\ s[i] \notin {"{", "["} THEN FirstOpener(s, i + 1) ELSE i

RECURSIVE Candidates(_, _, _)
\* The span from p closes at e (0: the text ends first, the span is
\* truncated and allowPartial is off: no candidate).
CandidateTo(s, p, e, n) ==
    IF e = 0 THEN <<>> ELSE <<SubSeq(s, p, e)>> \o Candidates(s, e + 1, n - 1)

CandidateAt(s, p, n) ==
    IF p > Len(s) THEN <<>> ELSE CandidateTo(s, p, BalancedEnd(s, p + 1, 1, FALSE), n)

\* 4.2 c and the tie-break: up to n balanced spans, in document order.
Candidates(s, i, n) ==
    IF n = 0 THEN <<>> ELSE CandidateAt(s, FirstOpener(s, i), n)

RECURSIVE FirstParsing(_, _)
OrNextCandidate(r, cs, attemptFix) ==
    IF r.ok THEN r ELSE FirstParsing(Tail(cs), attemptFix)

\* preferFirst: the first candidate that parses.
FirstParsing(cs, attemptFix) ==
    IF cs = <<>> THEN NoParse
    ELSE OrNextCandidate(ParseOrFix(Head(cs), attemptFix), cs, attemptFix)

\* maxBlocks defaults to 1, and a non-positive one is clamped to 1.
DefaultMaxBlocks == 1

OrExtracted(s, whole, attemptFix, maxBlocks) ==
    IF whole.ok THEN whole
    ELSE FirstParsing(Candidates(s, 1, IF maxBlocks < 1 THEN 1 ELSE maxBlocks),
                      attemptFix)

\* parseLLMJson(s, {attemptFix, maxBlocks, preferFirst: true, allowPartial:
\* false}) when it returns: the value, or ~ok when it gives up and returns s.
parseLLMJson(s, attemptFix, maxBlocks) ==
    OrExtracted(s, ParseOrFix(s, attemptFix), attemptFix, maxBlocks)

----------------------------------------------------------------------------
(* STRATEGY 4: the span of the route, line 184 *)

RECURSIVE LastIndexFrom(_, _, _)
LastIndexFrom(s, c, k) ==
    IF k = 0 \/ s[k] = c THEN k ELSE LastIndexFrom(s, c, k - 1)

\* The largest index of s that holds c, or 0.
LastIndexOf(s, c) == LastIndexFrom(s, c, Len(s))

SpanTo(i, e) == IF e > i THEN e ELSE 0

\* /\{[\s\S]*\}|\[[\s\S]*\]/ tried at index i: the last index of the match
\* (the greedy [\s\S]* runs to the last closing delimiter), or 0.
SpanEnd(s, i) ==
    IF s[i] = "{" THEN SpanTo(i, LastIndexOf(s, "}"))
    ELSE IF s[i] = "[" THEN SpanTo(i, LastIndexOf(s, "]"))
    ELSE 0

RECURSIVE SpanStart(_, _)
\* The leftmost index >= i at which the expression matches, or 0.
SpanStart(s, i) ==
    IF i > Len(s) THEN 0
    ELSE IF SpanEnd(s, i) # 0 THEN i
    ELSE SpanStart(s, i + 1)

MatchAt(s, first) ==
    IF first = 0 THEN [found |-> FALSE, text |-> <<>>]
    ELSE [found |-> TRUE, text |-> SubSeq(s, first, SpanEnd(s, first))]

\* cleaned.match(/\{[\s\S]*\}|\[[\s\S]*\]/): the leftmost match, as
\* [found, text].
jsonMatch(s) == MatchAt(s, SpanStart(s, 1))

----------------------------------------------------------------------------
(* JSON.stringify, on the values written above *)

\* The characters JSON.stringify writes for the character c of a string.
EscapeChar(c) ==
    CASE c = QT -> <<BS, QT>>
      [] c = BS -> <<BS, BS>>
      [] c = LF -> <<BS, "n">>
      [] c = CR -> <<BS, "r">>
      [] c = TAB -> <<BS, "t">>
      [] c = "BSP" -> <<BS, "b">>
      [] c = "FF" -> <<BS, "f">>
      [] OTHER -> <<c>>

\* The characters of a token that stands outside a string.
WriteToken(t) ==
    CASE t = "true" -> <<"t", "r", "u", "e">>
      [] t = "false" -> <<"f", "a", "l", "s", "e">>
      [] t = "null" -> <<"n", "u", "l", "l">>
      [] t \in {"<num", "num>"} -> <<>>
      [] OTHER -> <<t>>

RECURSIVE StringifyFrom(_, _, _)
StringifyFrom(v, i, inStr) ==
    IF i > Len(v) THEN <<>>
    ELSE IF v[i] = "<str" THEN <<QT>> \o StringifyFrom(v, i + 1, TRUE)
    ELSE IF v[i] = "str>" THEN <<QT>> \o StringifyFrom(v, i + 1, FALSE)
    ELSE IF inStr THEN EscapeChar(v[i]) \o StringifyFrom(v, i + 1, inStr)
    ELSE WriteToken(v[i]) \o StringifyFrom(v, i + 1, inStr)

\* JSON.stringify(v).
JSONstringify(v) == StringifyFrom(v, 1, FALSE)

----------------------------------------------------------------------------
(* The upstream responses of the model *)

\* The longest upstream response, in pieces.
MaxPieces == 4

\* Delimiters, a number, a quoted key, a bare key, and a span no repair
\* makes parse.
StructPieces ==
    { <<"{">>, <<"}">>, <<"[">>, <<"]">>, <<",">>, <<"1">>,
      <<QT, "a", QT, ":">>, <<"a", ":">>, <<"{", "1", "}">> }

\* String literals in an array: the quotes, the escapes \n and \u000a, a
\* backslash, and a brace to stand inside a literal.
StringPieces ==
    { <<"[", QT>>, <<QT, "]">>, <<QT>>, <<BS, "n">>,
      <<BS, "u", "0", "0", "0", "a">>, <<BS>>, <<"}">>, <<"a">> }

\* Prose, fences, line breaks.
TextPieces ==
    { Fence, TagJson, <<LF>>, <<BS, "n">>, <<"a">>, <<" ">>, <<"{", "}">> }

\* The three escape pairs, a backslash that starts none, a real line feed.
EscapePieces ==
    { <<BS, "n">>, <<BS, "r">>, <<BS, "t">>, <<BS>>, <<LF>>, <<"a">> }

SeqsUpTo(P, n) == UNION {[1..k -> P] : k \in 0..n}

Inputs ==
    {Concat(ps) : ps \in SeqsUpTo(StructPieces, MaxPieces)
                         \cup SeqsUpTo(StringPieces, MaxPieces)
                         \cup SeqsUpTo(TextPieces, MaxPieces)
                         \cup SeqsUpTo(EscapePieces, MaxPieces)}

----------------------------------------------------------------------------
(* The handler, route.ts lines 143-225, on a string data.response *)

VARIABLES
    raw,            \* data.response, the upstream string
    escaped,        \* cleaned after line 153
    unfenced,       \* cleaned after line 157
    cleaned,        \* cleaned after line 160
    span,           \* jsonMatch[0]
    parsedResponse, \* the value of parsedResponse
    pc,             \* the statement the handler is at
    log,            \* the stages run so far, each with its outcome
    reply           \* what NextResponse.json was given

\* The request around the parse, route.ts lines 86-143 and 211-247.
VARIABLES
    body,           \* what request.json() gives
    demoMode,       \* DEMO_MODE
    upstream,       \* what fetch gave
    history,        \* the exchanges answered at line 217 so far
    parser          \* the calls of parseLLMJson made so far, thrown or not

\* The chat page, page.tsx lines 31-125 and 323-349.
VARIABLES
    messages,       \* the state messages
    input,          \* the state input
    loading,        \* the state loading
    error,          \* the state error
    rendered,       \* input and loading as of the last render: what the
                    \* handlers of the page and its form controls see
    pending         \* the exchanges whose fetch has not settled

parseVars == <<raw, escaped, unfenced, cleaned, span, parsedResponse, log>>
requestVars == <<body, demoMode, upstream, history>>
pageVars == <<messages, input, loading, error, rendered, pending>>

vars == <<parseVars, pc, reply, requestVars, parser, pageVars>>

\* maxBlocks of the call at line 172.
MaxBlocks == 5

NoReply == [status |-> 0, success |-> FALSE, response |-> <<>>, raw_response |-> <<>>]

\* undefined: a field the request or the upstream body does not carry.
Missing == <<"undefined">>

\* request.json() having given an object with these fields.
Body(message, agent_id, user_id, session_id) ==
    [kind |-> "object", message |-> message, agent_id |-> agent_id,
     user_id |-> user_id, session_id |-> session_id]

\* fetch not called yet.
NoUpstream == [kind |-> "none", status |-> 0, response |-> <<>>]

\* fetch having resolved with response.ok and a body whose response is v.
UpstreamOk(v) == [kind |-> "ok", status |-> 200, response |-> v]

\* The page as mounted: lines 32-35.
PageInit ==
    /\ messages = <<>>
    /\ input = <<>>
    /\ loading = FALSE
    /\ error = <<>>
    /\ rendered = [input |-> <<>>, loading |-> FALSE]
    /\ pending = {}

Ran(stage, outcome) == [stage |-> stage, outcome |-> outcome]

\* Line 143: parsedResponse = data.response, a string.
Init ==
    /\ raw \in Inputs
    /\ escaped = <<>>
    /\ unfenced = <<>>
    /\ cleaned = <<>>
    /\ span = <<>>
    /\ parsedResponse = StrVal(raw)
    /\ pc = "preprocess"
    /\ log = <<>>
    /\ reply = NoReply
    /\ body = Body(<<"h", "i">>, Missing, Missing, Missing)
    /\ demoMode = FALSE
    /\ upstream = UpstreamOk(StrVal(raw))
    /\ history = <<>>
    /\ parser = {}
    /\ PageInit

\* Lines 148-160.
PreprocessStep ==
    /\ pc = "preprocess"
    /\ escaped' = ReplaceEscapes(raw)
    /\ unfenced' = StripFences(escaped')
    /\ cleaned' = Trim(unfenced')
    /\ log' = Append(log, Ran("preprocess", "done"))
    /\ pc' = "direct"
    /\ UNCHANGED <<raw, span, parsedResponse, reply, requestVars, parser, pageVars>>

\* The test of adoption without its typeof part.
AdoptedAnyValue(r) == r.ok

\* `r && typeof r === 'object'` of a parse that returned.
Adopted(r) == r.ok /\ IsObject(r.val)

\* The strict stage with the recovery parser called after the try block
\* rather than inside its catch block.
DirectParsedThenRecovery(r) ==
    /\ parsedResponse' = IF Adopted(r) THEN r.val ELSE parsedResponse
    /\ log' = Append(log, Ran("direct",
                              IF ~r.ok THEN "failed"
                              ELSE IF IsObject(r.val) THEN "adopted"
                              ELSE "rejected"))
    /\ pc' = "advanced"

\* Lines 164-169, JSON.parse having ended as r: an object is adopted, another
\* value is dropped, and either way the try block is left; a throw enters
\* the catch block of line 169.
DirectParsed(r) ==
    /\ parsedResponse' = IF Adopted(r) THEN r.val ELSE parsedResponse
    /\ log' = Append(log, Ran("direct",
                              IF ~r.ok THEN "failed"
                              ELSE IF IsObject(r.val) THEN "adopted"
                              ELSE "rejected"))
    /\ pc' = IF r.ok THEN "respond" ELSE "advanced"

\* Lines 163-169: JSON.parse(cleaned).
DirectParse ==
    /\ pc = "direct"
    /\ DirectParsed(JSONparse(cleaned))
    /\ UNCHANGED <<raw, escaped, unfenced, cleaned, span, reply>>
    /\ UNCHANGED <<requestVars, parser, pageVars>>

\* The recovery stage without the typeof test of line 179: what the parser
\* returns is stored, and a parser that gives up returns its input.
AdvancedParsedUnchecked(r, throws) ==
    /\ parsedResponse' = IF throws THEN parsedResponse
                         ELSE IF r.ok THEN r.val
                         ELSE StrVal(cleaned)
    /\ log' = Append(log, Ran("advanced",
                              IF throws THEN "threw"
                              ELSE IF Adopted(r) THEN "adopted"
                              ELSE "failed"))
    /\ pc' = IF throws \/ Adopted(r) THEN "respond" ELSE "extract"

\* A call of parseLLMJson on the text s with maxBlocks mb, thrown or not.
Called(s, mb, throws) == [text |-> s, maxBlocks |-> mb, throws |-> throws]

\* Whether a call of parseLLMJson may throw: the parser is a function of its
\* arguments, so a call made before ends as it ended then; a new call may
\* end either way.
ThrowChoices(s, mb) ==
    IF \E throws \in BOOLEAN : Called(s, mb, throws) \in parser
    THEN {throws \in BOOLEAN : Called(s, mb, throws) \in parser}
    ELSE BOOLEAN

\* Lines 172-182 and 207-210, the call having returned r or thrown. The call
\* stands in the catch block of line 169, inside the try of line 146 only:
\* when it throws, the catch of line 207 is entered and the ladder is left.
AdvancedParsed(r, throws) ==
    /\ parsedResponse' = IF ~throws /\ Adopted(r) THEN r.val ELSE parsedResponse
    /\ log' = Append(log, Ran("advanced",
                              IF throws THEN "threw"
                              ELSE IF Adopted(r) THEN "adopted"
                              ELSE "failed"))
    /\ pc' = IF throws \/ Adopted(r) THEN "respond" ELSE "extract"

\* Lines 170-182: parseLLMJson(cleaned, {attemptFix: true, maxBlocks: 5,
\* preferFirst: true, allowPartial: false}).
AdvancedParse ==
    /\ pc = "advanced"
    /\ \E throws \in ThrowChoices(cleaned, MaxBlocks) :
         /\ AdvancedParsed(parseLLMJson(cleaned, TRUE, MaxBlocks), throws)
         /\ parser' = parser \cup {Called(cleaned, MaxBlocks, throws)}
    /\ UNCHANGED <<raw, escaped, unfenced, cleaned, span, reply>>
    /\ UNCHANGED <<requestVars, pageVars>>

\* Lines 185-204, the match being m and JSON.parse of it having ended as r.
Extracted(m, r) ==
    /\ span' = m.text
    /\ parsedResponse' = IF m.found /\ Adopted(r) THEN r.val ELSE parsedResponse
    /\ log' = Append(log, Ran("extract",
                              IF ~m.found THEN "nomatch"
                              ELSE IF ~r.ok THEN "failed"
                              ELSE IF IsObject(r.val) THEN "adopted"
                              ELSE "rejected"))
    /\ pc' = IF m.found /\ ~r.ok THEN "lastResort" ELSE "respond"

ExtractMatched(m) == Extracted(m, JSONparse(m.text))

\* Lines 183-192 and 202-204: the match, and JSON.parse of the match.
Extract ==
    /\ pc = "extract"
    /\ ExtractMatched(jsonMatch(cleaned))
    /\ UNCHANGED <<raw, escaped, unfenced, cleaned, reply>>
    /\ UNCHANGED <<requestVars, parser, pageVars>>

\* Lines 195-200 and 207-210, the call having returned r or thrown.
LastResortParsed(r, throws) ==
    /\ parsedResponse' = IF ~throws /\ Adopted(r) THEN r.val ELSE parsedResponse
    /\ log' = Append(log, Ran("lastResort",
                              IF throws THEN "threw"
                              ELSE IF Adopted(r) THEN "adopted"
                              ELSE "failed"))
    /\ pc' = "respond"

\* Lines 193-200: parseLLMJson(jsonMatch[0], {attemptFix: true}).
LastResort ==
    /\ pc = "lastResort"
    /\ \E throws \in ThrowChoices(span, DefaultMaxBlocks) :
         /\ LastResortParsed(parseLLMJson(span, TRUE, DefaultMaxBlocks), throws)
         /\ parser' = parser \cup {Called(span, DefaultMaxBlocks, throws)}
    /\ UNCHANGED <<raw, escaped, unfenced, cleaned, span, reply>>
    /\ UNCHANGED <<requestVars, pageVars>>

\* The response with the parsed value kept for requests without a session
\* identifier only.
RespondBySession ==
    /\ pc = "respond"
    /\ reply' = [status |-> 200, success |-> TRUE,
                 response |-> IF body.session_id = Missing THEN parsedResponse
                              ELSE upstream.response,
                 raw_response |-> upstream.response]
    /\ pc' = "done"
    /\ UNCHANGED <<parseVars, requestVars, parser, pageVars>>

\* Lines 217-225: NextResponse.json({success: true, response:
\* parsedResponse, raw_response: data.response, ...}).
Respond ==
    /\ pc = "respond"
    /\ reply' = [status |-> 200, success |-> TRUE,
                 response |-> parsedResponse,
                 raw_response |-> upstream.response]
    /\ pc' = "done"
    /\ UNCHANGED <<parseVars, requestVars, parser, pageVars>>

\* Lines 145-215 as one function of data.response, when no call of
\* parseLLMJson throws: the value of parsedResponse at line 217.
Pipeline(s) ==
    LET c == Preprocess(s)
        direct == JSONparse(c)
        advanced == parseLLMJson(c, TRUE, MaxBlocks)
        m == jsonMatch(c)
        extracted == JSONparse(m.text)
        last == parseLLMJson(m.text, TRUE, DefaultMaxBlocks)
    IN  IF direct.ok THEN (IF IsObject(direct.val) THEN direct.val ELSE StrVal(s))
        ELSE IF Adopted(advanced) THEN advanced.val
        ELSE IF ~m.found THEN StrVal(s)
        ELSE IF extracted.ok
             THEN (IF IsObject(extracted.val) THEN extracted.val ELSE StrVal(s))
        ELSE IF Adopted(last) THEN last.val
        ELSE StrVal(s)

Next ==
    \/ PreprocessStep
    \/ DirectParse
    \/ AdvancedParse
    \/ Extract
    \/ LastResort
    \/ Respond

Spec == Init /\ [][Next]_vars

----------------------------------------------------------------------------
(* The whole handler, route.ts lines 86-247, over a run of requests *)

\* The number of requests of a run.
MaxRequests == 2

\* request.json() throwing, and giving null.
UnparsableBody ==
    [kind |-> "unparsable", message |-> Missing, agent_id |-> Missing,
     user_id |-> Missing, session_id |-> Missing]

NullBody ==
    [kind |-> "null", message |-> Missing, agent_id |-> Missing,
     user_id |-> Missing, session_id |-> Missing]

\* The request bodies: none, null, no message, an empty message, and two
\* messages, one without and one with the three identifiers.
Bodies ==
    { UnparsableBody, NullBody,
      Body(Missing, Missing, Missing, Missing),
      Body(StrVal(<<>>), StrVal(<<"x">>), StrVal(<<"x">>), StrVal(<<"x">>)),
      Body(StrVal(<<"h", "i">>), Missing, Missing, Missing),
      Body(StrVal(<<"y", "o">>), StrVal(<<"x">>), StrVal(<<"x">>), StrVal(<<"x">>)) }

\* !v for the values of the model.
Falsy(v) == v \in {Missing, <<"null">>, StrVal(<<>>)}

\* DEMO_RESPONSES, lines 53-84, cut to two objects of one member.
DemoResponses ==
    { <<"{", "<str", "a", "str>", ":", "<str", "a", "str>", "}">>,
      <<"{", "<str", "a", "str>", ":", "<str", "b", "str>", "}">> }

\* What data.response can be: strings (parsed at once, fenced, plain,
\* repaired at the last stage), objects, and values of other types.
UpstreamResponses ==
    { StrVal(<<"[", "1", "]">>),
      StrVal(Fence \o TagJson \o <<LF, "{", "}", LF>> \o Fence),
      StrVal(<<"a">>),
      StrVal(<<"[", "{", ",", "}">>),
      <<"{", "<str", "a", "str>", ":", "<num", "1", "num>", "}">>,
      <<"[", "<str", "[", "1", "]", "str>", "]">>,
      NumVal(<<"1">>), <<"null">>, Missing }

\* What fetch and response.json() can give: a rejection, a body that is no
\* JSON, a status other than 2xx, or a body with a response.
Upstreams ==
    { [kind |-> k, status |-> 0, response |-> <<>>] : k \in {"rejected", "badjson"} }
    \cup { [kind |-> "status", status |-> 502, response |-> <<>>] }
    \cup { UpstreamOk(v) : v \in UpstreamResponses }

\* The characters of a string value.
StrChars(v) == SubSeq(v, 2, Len(v) - 1)

\* NextResponse.json({success: false, ...}, {status}).
ErrorReply(status) ==
    [status |-> status, success |-> FALSE, response |-> <<>>, raw_response |-> <<>>]

\* The locals of the handler before line 143.
FreshParse ==
    /\ raw' = <<>>
    /\ escaped' = <<>>
    /\ unfenced' = <<>>
    /\ cleaned' = <<>>
    /\ span' = <<>>
    /\ parsedResponse' = <<>>
    /\ log' = <<>>

RouteInit ==
    /\ raw = <<>>
    /\ escaped = <<>>
    /\ unfenced = <<>>
    /\ cleaned = <<>>
    /\ span = <<>>
    /\ parsedResponse = <<>>
    /\ log = <<>>
    /\ pc = "start"
    /\ reply = NoReply
    /\ body \in Bodies
    /\ demoMode \in BOOLEAN
    /\ upstream = NoUpstream
    /\ history = <<>>
    /\ parser = {}
    /\ PageInit

\* The validation with the demo branch taken before the message is tested.
ValidateAfterDemo ==
    /\ pc = "start"
    /\ reply' = IF body.kind # "object" THEN ErrorReply(500)
                ELSE IF ~demoMode /\ Falsy(body.message) THEN ErrorReply(400)
                ELSE reply
    /\ pc' = IF body.kind # "object" THEN "done"
             ELSE IF demoMode THEN "demo"
             ELSE IF Falsy(body.message) THEN "done"
             ELSE "fetch"
    /\ UNCHANGED <<parseVars, requestVars, parser, pageVars>>

\* Lines 87-105 and 237-247: the body is read and destructured, which throws
\* into the catch of line 237 when there is no JSON or the JSON is null;
\* then the message is tested.
Validate ==
    /\ pc = "start"
    /\ reply' = IF body.kind # "object" THEN ErrorReply(500)
                ELSE IF Falsy(body.message) THEN ErrorReply(400)
                ELSE reply
    /\ pc' = IF body.kind # "object" \/ Falsy(body.message) THEN "done"
             ELSE IF demoMode THEN "demo"
             ELSE "fetch"
    /\ UNCHANGED <<parseVars, requestVars, parser, pageVars>>

\* Lines 108-122: a demo response, picked by Math.random.
Demo ==
    /\ pc = "demo"
    /\ \E d \in DemoResponses :
         reply' = [status |-> 200, success |-> TRUE, response |-> d,
                   raw_response |-> StrVal(JSONstringify(d))]
    /\ pc' = "done"
    /\ UNCHANGED <<parseVars, requestVars, parser, pageVars>>

\* Lines 125-145, 211 and 226-247, fetch having ended as u: a rejection or a
\* body that is no JSON throws into the catch of line 237; a status other
\* than 2xx is passed on; else parsedResponse is data.response and the
\* branch is taken by its type.
Fetched(u) ==
    /\ upstream' = u
    /\ reply' = IF u.kind \in {"rejected", "badjson"} THEN ErrorReply(500)
                ELSE IF u.kind = "status" THEN ErrorReply(u.status)
                ELSE reply
    /\ parsedResponse' = u.response
    /\ raw' = IF IsString(u.response) THEN StrChars(u.response) ELSE raw
    /\ pc' = IF u.kind # "ok" THEN "done"
             ELSE IF IsString(u.response) THEN "preprocess"
             ELSE IF IsObject(u.response) THEN "object"
             ELSE "respond"

Fetch ==
    /\ pc = "fetch"
    /\ \E u \in Upstreams : Fetched(u)
    /\ UNCHANGED <<escaped, unfenced, cleaned, span, log>>
    /\ UNCHANGED <<body, demoMode, history, parser, pageVars>>

\* The object branch with the object serialized on its way.
ObjectResponseSerialized ==
    /\ pc = "object"
    /\ parsedResponse' = StrVal(JSONstringify(upstream.response))
    /\ pc' = "respond"
    /\ UNCHANGED <<raw, escaped, unfenced, cleaned, span, log>>
    /\ UNCHANGED <<reply, requestVars, parser, pageVars>>

\* Lines 211-215: data.response is a non-null object, used as it is.
ObjectResponse ==
    /\ pc = "object"
    /\ parsedResponse' = upstream.response
    /\ pc' = "respond"
    /\ UNCHANGED <<raw, escaped, unfenced, cleaned, span, log>>
    /\ UNCHANGED <<reply, requestVars, parser, pageVars>>

\* The handler has returned: the exchange is kept for comparison, and the
\* next request, if any, enters a fresh call of POST.
Finish ==
    /\ pc = "done"
    /\ history' = Append(history, [body |-> body, upstream |-> upstream,
                                    reply |-> reply])
    /\ pc' = IF Len(history') < MaxRequests THEN "start" ELSE "idle"
    /\ body' \in Bodies
    /\ upstream' = NoUpstream
    /\ reply' = NoReply
    /\ FreshParse
    /\ UNCHANGED <<demoMode, parser, pageVars>>

RouteNext ==
    \/ Validate
    \/ Demo
    \/ Fetch
    \/ ObjectResponse
    \/ PreprocessStep
    \/ DirectParse
    \/ AdvancedParse
    \/ Extract
    \/ LastResort
    \/ Respond
    \/ Finish

RouteSpec == RouteInit /\ [][RouteNext]_vars

----------------------------------------------------------------------------
(* The chat page, page.tsx: the form and handleSubmit *)

\* The number of exchanges of a run.
MaxExchanges == 3

\* What can be typed into the input.
Typed == {<<>>, <<" ">>, <<"h", "i">>, <<"y", "o">>}

\* How the fetch of an exchange can settle: an answer with success true, an
\* answer with success false, a rejection.
Outcomes == {"success", "failure", "rejected"}

\* The exchanges started so far: the user messages.
Exchanges == {k \in 1..Len(messages) : messages[k].type = "user"}

UserMessage(id, content) == [type |-> "user", exchange |-> id, content |-> content]
AgentMessage(id) == [type |-> "agent", exchange |-> id, content |-> <<"o", "k">>]

PageSpecInit ==
    /\ raw = <<>>
    /\ escaped = <<>>
    /\ unfenced = <<>>
    /\ cleaned = <<>>
    /\ span = <<>>
    /\ parsedResponse = <<>>
    /\ log = <<>>
    /\ pc = "page"
    /\ reply = NoReply
    /\ body = UnparsableBody
    /\ demoMode = FALSE
    /\ upstream = NoUpstream
    /\ history = <<>>
    /\ parser = {}
    /\ PageInit

\* Lines 328-333: onChange of the input, which is disabled while the page
\* shows loading.
Type ==
    /\ ~rendered.loading
    /\ \E t \in Typed : input' = t
    /\ UNCHANGED <<messages, loading, error, rendered, pending>>
    /\ UNCHANGED <<parseVars, pc, reply, requestVars, parser>>

\* The component renders again: the handlers and the form controls now see
\* the current input and loading.
Render ==
    /\ rendered # [input |-> input, loading |-> loading]
    /\ rendered' = [input |-> input, loading |-> loading]
    /\ UNCHANGED <<messages, input, loading, error, pending>>
    /\ UNCHANGED <<parseVars, pc, reply, requestVars, parser>>

\* Lines 57-82: handleSubmit up to its fetch. input and loading are those of
\* the render the handler belongs to.
Submit ==
    /\ Cardinality(Exchanges) < MaxExchanges
    /\ IF Trim(rendered.input) = <<>> \/ rendered.loading
       THEN UNCHANGED <<messages, input, loading, error, pending>>
       ELSE /\ messages' = Append(messages,
                                  UserMessage(Cardinality(Exchanges) + 1,
                                              rendered.input))
            /\ input' = <<>>
            /\ error' = <<>>
            /\ loading' = TRUE
            /\ pending' = pending \cup {Cardinality(Exchanges) + 1}
    /\ UNCHANGED rendered
    /\ UNCHANGED <<parseVars, pc, reply, requestVars, parser>>

\* Lines 84-124: the fetch of the exchange id has settled.
Settled(id, outcome) ==
    /\ messages' = IF outcome = "success"
                   THEN Append(messages, AgentMessage(id))
                   ELSE messages
    /\ error' = IF outcome = "success" THEN error ELSE <<"e", "r", "r">>
    /\ loading' = FALSE
    /\ pending' = pending \ {id}

Settle ==
    /\ \E id \in pending, outcome \in Outcomes : Settled(id, outcome)
    /\ UNCHANGED <<input, rendered>>
    /\ UNCHANGED <<parseVars, pc, reply, requestVars, parser>>

PageNext ==
    \/ Type
    \/ Render
    \/ Submit
    \/ Settle

PageSpec == PageSpecInit /\ [][PageNext]_vars

----------------------------------------------------------------------------
(* The properties *)

\* The stages of the ladder, in the order of the claims.
StageOrder == <<"preprocess", "direct", "advanced", "extract", "lastResort">>

\* A stage of the log adopted a structured value.
SomeStageAdopted == \E k \in 1..Len(log) : log[k].outcome = "adopted"

\* A call of parseLLMJson threw.
SomeStageThrew == \E k \in 1..Len(log) : log[k].outcome = "threw"

\* C1: the stages run in the order preprocess, strict parse, recovery parse,
\* extraction with strict parse of the span, recovery parse of the span; a
\* stage runs only when every parsing stage before it failed, so none runs
\* after the first stage that succeeds.
C1_LadderOrder ==
    /\ Len(log) <= Len(StageOrder)
    /\ \A k \in 1..Len(log) : log[k].stage = StageOrder[k]
    /\ \A k \in 2..Len(log) : k < Len(log) => log[k].outcome = "failed"
    /\ pc \in {"respond", "done"} => Len(log) >= 2
    /\ pc = "direct" => log = <<Ran("preprocess", "done")>>

\* C1, witness: a request that ran all five stages, the last one adopting.
C1_Witness ==
    /\ pc = "done"
    /\ Len(log) = 5
    /\ log[5] = Ran("lastResort", "adopted")
    /\ IsObject(reply.response)

\* C2: when no stage yields a structured value, by failing or by throwing,
\* the handler answers success true, status 200, and the response field is
\* the upstream string itself.
C2_OriginalReturned ==
    (pc = "done" /\ ~SomeStageAdopted)
        => /\ reply.success
           /\ reply.status = 200
           /\ reply.response = StrVal(raw)
           /\ reply.raw_response = StrVal(raw)

\* C2, witness: a parser call threw on a response that preprocessing
\* changed, and the answer was sent.
C2_Witness ==
    /\ pc = "done"
    /\ ~SomeStageAdopted
    /\ SomeStageThrew
    /\ cleaned # raw
    /\ cleaned # <<>>

\* C3 (for the values the handler adopts): a response that is valid JSON for
\* an object or an array yields the value of its strict parse, by the strict
\* stage alone, the recovery parser never being called.
C3_ValidJsonByStrictStage ==
    (pc = "done" /\ Adopted(JSONparse(raw)) /\ ~SomeStageThrew)
        => /\ reply.response = JSONparse(raw).val
           /\ log = <<Ran("preprocess", "done"), Ran("direct", "adopted")>>

\* C4: a stage that fails, or whose parser call throws, is followed by the
\* next stage, unless it is the last one. (Extraction that finds no span
\* leaves the last stage nothing to parse and is not counted.)
C4_FailureFallsThrough ==
    pc = "done"
        => \A k \in 2..Len(log) :
             (log[k].outcome \in {"failed", "threw"} /\ k < Len(StageOrder))
                 => Len(log) > k

\* The span C5 describes: from the first opening delimiter that has a
\* matching closing one, by depth counting outside string literals, to that
\* closing delimiter.
RECURSIVE BalancedSpanFrom(_, _)
BalancedSpanFrom(s, i) ==
    IF FirstOpener(s, i) > Len(s) THEN <<>>
    ELSE IF BalancedEnd(s, FirstOpener(s, i) + 1, 1, FALSE) # 0
         THEN SubSeq(s, FirstOpener(s, i),
                     BalancedEnd(s, FirstOpener(s, i) + 1, 1, FALSE))
    ELSE BalancedSpanFrom(s, FirstOpener(s, i) + 1)

\* C5: the span the extraction stage selects is the first balanced span.
C5_FirstBalancedSpan ==
    (Len(log) >= 4 /\ log[4].outcome # "nomatch")
        => span = BalancedSpanFrom(cleaned, 1)

\* A fenced block: the content between an opening fence line carrying the
\* tag and a closing fence line.
Wrap(content, tag) == Fence \o tag \o <<LF>> \o content \o <<LF>> \o Fence

\* Language tags of an opening fence line.
FenceTags == {TagJson, TagJSON, <<"j", "s">>}

C7_RoundTrip ==
    (pc = "done" /\ IsObject(reply.response))
        => Pipeline(JSONstringify(reply.response)) = reply.response

\* The indexes of s at which an escape pair starts: a backslash followed by
\* the letter n, r or t.
EscapePairs(s) ==
    {i \in 1..(Len(s) - 1) : s[i] = BS /\ s[i + 1] \in {"n", "r", "t"}}

\* The indexes of s that give a character of the output: all but the letter
\* of each pair.
EscapeSources(s) == {i \in 1..Len(s) : (i - 1) \notin EscapePairs(s)}

\* The control character the pair with letter c stands for.
ControlFor(c) == CASE c = "n" -> LF [] c = "r" -> CR [] c = "t" -> TAB

\* The place in the output of the source index i.
RankIn(S, i) == Cardinality({j \in S : j <= i})

\* C8: the escape step replaces every backslash-n, backslash-r and
\* backslash-t pair by the line feed, carriage return and tab it stands for,
\* and keeps every other character, real control characters and other
\* backslashes included, in order.
C8_EscapeStep ==
    pc = "direct"
        => /\ Len(escaped) = Cardinality(EscapeSources(raw))
           /\ \A i \in EscapeSources(raw) :
                escaped[RankIn(EscapeSources(raw), i)] =
                    IF i \in EscapePairs(raw) THEN ControlFor(raw[i + 1])
                    ELSE raw[i]

\* C8, witness: a response with pairs of two kinds, a real line feed and a
\* backslash that starts no pair.
C8_Witness ==
    /\ pc = "direct"
    /\ Cardinality({raw[i + 1] : i \in EscapePairs(raw)}) >= 2
    /\ \E i \in 1..Len(raw) : raw[i] = LF
    /\ \E i \in 1..Len(raw) : raw[i] = BS /\ i \notin EscapePairs(raw)

\* The fence patterns without the m and g flags: an opening fence at the
\* start of the string, a closing fence at its end.
LeadingFenceEnd(s) ==
    IF HasAt(s, 1, Fence) THEN SkipWs(s, AfterTag(s, 4)) ELSE 1

StripLeadingFence(s) == SubSeq(s, LeadingFenceEnd(s), Len(s))

TrailingFences(s) ==
    {k \in 1..Len(s) : HasAt(s, k, Fence) /\ SkipWs(s, k + 3) > Len(s)}

TrailingFenceStart(s) ==
    LET k == CHOOSE e \in TrailingFences(s) : \A f \in TrailingFences(s) : e <= f
    IN  IF k > 1 /\ s[k - 1] = LF THEN k - 1 ELSE k

StripTrailingFence(s) ==
    IF TrailingFences(s) = {} THEN s ELSE SubSeq(s, 1, TrailingFenceStart(s) - 1)

\* A string with no backtick and no escape pair.
Plain(s) == EscapePairs(s) = {} /\ \A i \in 1..Len(s) : s[i] # BT

\* C9 as stated: the fence step strips an opening fence only at the start of
\* the string and a closing fence only at its end, interior lines staying as
\* they are; a plain string is cleaned to its trimmed form.
C9_FencesOnlyAtEnds ==
    pc = "direct"
        => /\ unfenced = StripTrailingFence(StripLeadingFence(escaped))
           /\ Plain(raw) => cleaned = Trim(raw)

\* The indexes where a line of s starts with a fence, and those where a
\* fence is followed by white space only up to the end of a line.
OpenFenceLines(s) == {i \in 1..Len(s) : AtLineStart(s, i) /\ HasAt(s, i, Fence)}

CloseFenceLines(s) ==
    {k \in 1..Len(s) :
        /\ HasAt(s, k, Fence)
        /\ \E e \in (k + 3)..(Len(s) + 1) :
             /\ AtLineEnd(s, e)
             /\ \A j \in (k + 3)..(e - 1) : s[j] \in WhiteSpace}

\* The characters the fence patterns can match, and the rest of a string.
FenceStepChars == {BT, "j", "s", "o", "n", "J", "S", "O", "N"} \cup WhiteSpace

Payload(s) == SelectSeq(s, LAMBDA c : c \notin FenceStepChars)

\* C9, amended: the fence step strips an opening fence at the start of every
\* line and a closing fence at the end of every line, interior lines
\* included; it removes backticks, tag letters and white space only; a
\* string no line of which starts or ends with a fence is left as it is;
\* a plain string is cleaned to its trimmed form.
C9_FencesOnEveryLine ==
    pc = "direct"
        => /\ Payload(unfenced) = Payload(escaped)
           /\ (OpenFenceLines(escaped) = {} /\ CloseFenceLines(escaped) = {})
                  => unfenced = escaped
           /\ (OpenFenceLines(escaped) # {} \/ CloseFenceLines(escaped) # {})
                  => Len(unfenced) < Len(escaped)
           /\ Plain(raw) => cleaned = Trim(raw)

\* C9, witness: a fence on an interior line was stripped.
C9_Witness ==
    /\ pc = "direct"
    /\ ~HasAt(escaped, 1, Fence)
    /\ TrailingFences(escaped) = {}
    /\ OpenFenceLines(escaped) # {}
    /\ Len(unfenced) < Len(escaped)
    /\ Payload(escaped) # <<>>

\* An opening fence, bare or tagged json or JSON, followed at once or after
\* a line feed by a closing fence.
FencePairs ==
    {Fence \o tag \o sep \o Fence :
        tag \in {<<>>, TagJson, TagJSON}, sep \in {<<>>, <<LF>>}}

\* C10 as stated: for the empty response and for a fence pair the cleaned
\* string is empty, no error is answered, and the pipeline returns the empty
\* string.
C10_EmptyStringReturned ==
    (pc = "done" /\ raw \in FencePairs \cup {<<>>})
        => /\ cleaned = <<>>
           /\ reply.success
           /\ reply.response = StrVal(<<>>)

\* C10, amended: for the empty response and for a fence pair the cleaned
\* string is empty, no stage adopts a value, the handler answers success
\* true with status 200, and the response field is the upstream string
\* itself: the fence pair for a fence pair.
C10_EmptyCleanedKeepsOriginal ==
    (pc = "done" /\ raw \in FencePairs \cup {<<>>})
        => /\ cleaned = <<>>
           /\ ~SomeStageAdopted
           /\ reply.success
           /\ reply.status = 200
           /\ reply.response = StrVal(raw)

\* C10, witness: a fence pair was answered.
C10_Witness ==
    /\ pc = "done"
    /\ raw \in FencePairs
    /\ cleaned = <<>>
    /\ reply.response = StrVal(raw)

Answered(h) == h.upstream.kind = "ok"

C13_MissingMessage400 ==
    (pc = "done" /\ Falsy(body.message))
        => /\ reply.status = 400
           /\ ~reply.success
           /\ upstream = NoUpstream

\* C13, amended: a request whose body is a JSON object with no message or
\* an empty one is answered with status 400 and success false; a request
\* whose body is no JSON or is null is answered with status 500 and success
\* false; in both cases, in demo mode and in production mode alike, no demo
\* response is produced and the upstream service is not called.
C13_MissingMessageRefused ==
    (pc = "done" /\ Falsy(body.message))
        => /\ reply = ErrorReply(IF body.kind = "object" THEN 400 ELSE 500)
           /\ upstream = NoUpstream
           /\ log = <<>>

\* C13, witness: in demo mode, a body with an empty message was refused.
C13_Witness ==
    /\ pc = "done"
    /\ demoMode
    /\ body.kind = "object"
    /\ body.message = StrVal(<<>>)
    /\ reply = ErrorReply(400)

====
